---- MODULE Spec2Model ----
(***************************************************************************)
(* City Scout front-end: the authentication context provider               *)
(* (src/context/AuthContext.tsx) and the login and profile views           *)
(* (src/pages/Auth.tsx).                                                   *)
(*                                                                         *)
(* One action is one event-loop job: the synchronous run of a handler up   *)
(* to its first await, or the resumption of an async function when the     *)
(* promise it awaits settles, together with the continuations of the       *)
(* callers awaiting it (they run in the same microtask checkpoint).        *)
(* Every awaited SDK or network promise settles in one of the ways the     *)
(* code distinguishes: resolved without error, resolved with an error      *)
(* object, or rejected (thrown).                                           *)
(*                                                                         *)
(* Each context operation has one call record that follows one invocation  *)
(* from its call to its settlement; the record is overwritten by the next  *)
(* invocation.  The effects an invocation issues (requests, navigations,   *)
(* toasts) are logged in its record.                                       *)
(***************************************************************************)
EXTENDS Naturals, Sequences, FiniteSets

\* ---------------------------------------------------------------- bounds
\* In-flight profile fetches (deferred timers included) the listener may have started.
MaxFetches == 2

\* Clicks on the Google button the model follows at once (the button's own guard allows 1).
MaxClicks == 2

\* Personality-data fetches of the profile view in flight at once.
MaxViewFetches == 2

\* ---------------------------------------------------------------- values
NULL == [null |-> TRUE]

Users == {"u1", "u2"}

Tokens == {"t1"}

\* A User object of the SDK.
UserOf(u) == [id |-> u]

\* A Session object of the SDK: it carries its user and an access token.
Sessions == {[user |-> UserOf(u), access_token |-> t] : u \in Users, t \in Tokens}

Tiles1 == [Lifestyle_Vibes |-> "v1"]

\* A row of the profiles table (Tables<'profiles'>), as the backend may hold it for user u.
BackendRows(u) ==
    {[id |-> u, onboarding_completed |-> b, has_personality_insights |-> b,
      preference_chosen |-> b, personality_tiles |-> IF b THEN Tiles1 ELSE NULL,
      full_name |-> "n1"] : b \in BOOLEAN}

\* Partial<Profile> arguments of updateProfile.
UpdateInputs ==
    {[onboarding_completed |-> TRUE],
     [full_name |-> "n2"],
     [has_personality_insights |-> TRUE, personality_tiles |-> Tiles1]}

\* Texts of the stored personality report.
ReportTexts == {[text |-> "report1"]}

\* toast.error(msg) and toast.success(msg) of sonner, as logged.
ToastError(msg) == [kind |-> "error", msg |-> msg]

ToastSuccess(msg) == [kind |-> "success", msg |-> msg]

\* The ways an awaited SDK promise settles: { error: null }, { error }, or a rejection.
SdkOutcomes == {"ok", "error", "throw"}

VARIABLES
    session,      \* useState<Session | null>(null)
    user,         \* useState<User | null>(null)
    profile,      \* useState<Profile | null>(null)
    loading,      \* useState(true)
    initPc,       \* position of the mount effect and initializeAuth
    initUser,     \* the user id initializeAuth passed to the fetchProfile it awaits
    listening,    \* the onAuthStateChange subscription is registered
    deferred,     \* setTimeout(() => fetchProfile(id), 0) callbacks not yet run, per user
    fetching,     \* fetchProfile calls of the listener awaiting the backend, per user
    so,           \* call record of signOut (and of handleLogout when it is the caller)
    da,           \* call record of deleteAccount
    up,           \* call record of updateProfile
    rs,           \* call record of resetUserData
    au,           \* call record of signInWithEmail, signUpWithEmail and getGoogleAuthToken
    authLoading,  \* login view: useState(false)
    oauthInFlight,\* login view: signInWithOAuth calls not yet settled
    gs,           \* call record of handleGoogleSignIn
    viewLoading,        \* profile view: useState(true)
    personalityReport,  \* profile view: useState<string | null>(null)
    personalityTiles,   \* profile view: useState<PersonalityTiles | null>(null)
    pvDeps,             \* profile view: [user, profile] the effect last ran with
    pvDownloading,      \* profile view: fetches awaiting the report download
    pvReading,          \* profile view: fetches awaiting data.text()
    pv                  \* profile view: navigation of the last effect run; how the last finished fetch ended and its toasts

provider == <<session, user, profile, loading>>

initState == <<initPc, initUser, listening, deferred, fetching>>

ops == <<so, da, up, rs, au>>

loginView == <<authLoading, oauthInFlight, gs>>

profileView == <<viewLoading, personalityReport, personalityTiles, pvDeps, pvDownloading, pvReading, pv>>

vars == <<provider, initState, ops, loginView, profileView>>

\* ------------------------------------------------------------ call records
SoIdle == [pc |-> "idle", caller |-> "none", sdk |-> "none", result |-> "none",
           handler |-> "none", nav |-> <<>>, toasts |-> <<>>]

DaIdle == [pc |-> "idle", status |-> "none", reqs |-> <<>>, signOuts |-> 0, sdk |-> "none",
           nav |-> <<>>, toasts |-> <<>>, result |-> "none", err |-> "none"]

UpIdle == [pc |-> "idle", updates |-> <<>>, reqs |-> <<>>, upd |-> "none",
           result |-> "none", err |-> "none"]

RsIdle == [pc |-> "idle", reqs |-> <<>>, upd |-> "none", removes |-> <<>>, rem |-> "none",
           nav |-> <<>>, result |-> "none", err |-> "none"]

GsIdle == [pc |-> "idle", oauthCalls |-> 0, sdk |-> "none", result |-> "none",
           handler |-> "none", toasts |-> <<>>]

AuIdle == [pc |-> "idle", op |-> "none", sdk |-> "none", result |-> "none"]

PvIdle == [nav |-> <<>>, last |-> "none", toasts |-> <<>>]

Total(f) == LET u1 == CHOOSE u \in Users : TRUE
                u2 == CHOOSE u \in Users : u # u1
            IN  f[u1] + f[u2]

Init ==
    /\ session = NULL
    /\ user = NULL
    /\ profile = NULL
    /\ loading = TRUE
    /\ initPc = "unmounted"
    /\ initUser = "none"
    /\ listening = FALSE
    /\ deferred = [u \in Users |-> 0]
    /\ fetching = [u \in Users |-> 0]
    /\ so = SoIdle
    /\ da = DaIdle
    /\ up = UpIdle
    /\ rs = RsIdle
    /\ au = AuIdle
    /\ authLoading = FALSE
    /\ oauthInFlight = 0
    /\ gs = GsIdle
    /\ viewLoading = TRUE
    /\ personalityReport = NULL
    /\ personalityTiles = NULL
    /\ pvDeps = <<>>
    /\ pvDownloading = 0
    /\ pvReading = 0
    /\ pv = PvIdle

\* ------------------------------------------------------- mount effect
\* Mutant: the mount effect calls initializeAuth without registering the listener.
MountWithoutListener ==
    /\ initPc = "unmounted"
    /\ listening' = FALSE
    /\ initPc' = "getSession"
    /\ UNCHANGED <<provider, initUser, deferred, fetching, ops, loginView, profileView>>

\* useEffect(() => {...}, []): registers the listener, then calls initializeAuth,
\* which runs up to its await of getSession.
Mount ==
    /\ initPc = "unmounted"
    /\ listening' = TRUE
    /\ initPc' = "getSession"
    /\ UNCHANGED <<provider, initUser, deferred, fetching, ops, loginView, profileView>>

\* The provider is mounted: its mount effect has run and its cleanup has not.
Mounted == initPc \notin {"unmounted", "gone"}

\* The cleanup of the mount effect, run when the provider unmounts:
\* subscription.unsubscribe().  React drops the state of an unmounted component.
Unmount ==
    /\ Mounted
    /\ listening' = FALSE
    /\ initPc' = "gone"
    /\ UNCHANGED <<provider, initUser, deferred, fetching, ops, loginView, profileView>>

\* Mutant: the no-session branch of the callback clears the session and the
\* profile and leaves user.
AuthStateChangeKeepsUser(s) ==
    /\ listening
    /\ IF s # NULL /\ s.user # NULL
       THEN /\ Total(deferred) + Total(fetching) < MaxFetches
            /\ session' = s
            /\ user' = s.user
            /\ deferred' = [deferred EXCEPT ![s.user.id] = @ + 1]
            /\ UNCHANGED profile
       ELSE /\ session' = NULL
            /\ profile' = NULL
            /\ UNCHANGED <<user, deferred>>
    /\ UNCHANGED <<loading, initPc, initUser, listening, fetching, ops, loginView, profileView>>

\* The onAuthStateChange callback, for an event carrying session s (or null).
AuthStateChange(s) ==
    /\ listening
    /\ IF s # NULL /\ s.user # NULL
       THEN /\ Total(deferred) + Total(fetching) < MaxFetches
            /\ session' = s
            /\ user' = s.user
            /\ deferred' = [deferred EXCEPT ![s.user.id] = @ + 1]
            /\ UNCHANGED profile
       ELSE /\ session' = NULL
            /\ user' = NULL
            /\ profile' = NULL
            /\ UNCHANGED deferred
    /\ UNCHANGED <<loading, initPc, initUser, listening, fetching, ops, loginView, profileView>>

\* The deferred timer callback: calls fetchProfile(u), which issues the select.
DeferredFetch(u) ==
    /\ deferred[u] > 0
    /\ deferred' = [deferred EXCEPT ![u] = @ - 1]
    /\ fetching' = [fetching EXCEPT ![u] = @ + 1]
    /\ UNCHANGED <<provider, initPc, initUser, listening, ops, loginView, profileView>>

\* What fetchProfile does to profile when its select settles: data is the row, or
\* NULL when the select returned an error or threw.
FetchedProfile(data) == IF data = NULL THEN profile ELSE data

\* fetchProfile(u) of the listener resumes after its select settled.
FetchProfileSettle(u, data) ==
    /\ fetching[u] > 0
    /\ fetching' = [fetching EXCEPT ![u] = @ - 1]
    /\ profile' = FetchedProfile(data)
    /\ UNCHANGED <<session, user, loading, initPc, initUser, listening, deferred, ops, loginView, profileView>>

\* Mutant: the early return for a getSession error leaves loading as it is.
GetSessionSettleKeepsLoading(o, s) ==
    /\ initPc = "getSession"
    /\ IF o = "ok" /\ s # NULL /\ s.user # NULL
       THEN /\ session' = s
            /\ user' = s.user
            /\ initPc' = "fetchProfile"
            /\ initUser' = s.user.id
            /\ UNCHANGED loading
       ELSE /\ loading' = IF o = "error" THEN loading ELSE FALSE
            /\ initPc' = "done"
            /\ UNCHANGED <<session, user, initUser>>
    /\ UNCHANGED <<profile, listening, deferred, fetching, ops, loginView, profileView>>

\* initializeAuth resumes after getSession settled with outcome o and session s.
GetSessionSettle(o, s) ==
    /\ initPc = "getSession"
    /\ IF o = "ok" /\ s # NULL /\ s.user # NULL
       THEN /\ session' = s
            /\ user' = s.user
            /\ initPc' = "fetchProfile"
            /\ initUser' = s.user.id
            /\ UNCHANGED loading
       ELSE /\ loading' = FALSE
            /\ initPc' = "done"
            /\ UNCHANGED <<session, user, initUser>>
    /\ UNCHANGED <<profile, listening, deferred, fetching, ops, loginView, profileView>>

\* initializeAuth resumes after its awaited fetchProfile(initUser) returned.
InitFetchSettle(data) ==
    /\ initPc = "fetchProfile"
    /\ profile' = FetchedProfile(data)
    /\ loading' = FALSE
    /\ initPc' = "done"
    /\ UNCHANGED <<session, user, initUser, listening, deferred, fetching, ops, loginView, profileView>>

\* ------------------------------------------------------------- signOut
\* Mutant: the catch block of signOut does not re-throw.
SignOutResultSwallowed(o) == "resolved"

\* signOut as it settles for outcome o of supabase.auth.signOut().
SignOutResult(o) == IF o = "ok" THEN "resolved" ELSE "rejected"

\* signOut is called (by handleLogout of the profile view, or by another caller)
\* and runs up to its await of supabase.auth.signOut().
SignOutCall(c) ==
    /\ so.pc # "awaitSignOut"
    /\ so' = [SoIdle EXCEPT !.pc = "awaitSignOut", !.caller = c]
    /\ UNCHANGED <<provider, initState, da, up, rs, au, loginView, profileView>>

\* Mutant: handleLogout shows its success toast after the try block.
HandleLogoutToastsAlways(r) ==
    IF r = "resolved" THEN <<ToastSuccess("Logged out successfully")>>
    ELSE <<ToastError("Failed to log out. Please try again."),
           ToastSuccess("Logged out successfully")>>

\* The toasts handleLogout shows once the signOut it awaited settled with result r.
HandleLogoutToasts(r) ==
    IF r = "resolved" THEN <<ToastSuccess("Logged out successfully")>>
    ELSE <<ToastError("Failed to log out. Please try again.")>>

\* How handleLogout itself settles: its catch block takes every rejection.
HandleLogoutResult(r) == "resolved"

\* signOut resumes after supabase.auth.signOut() settled with outcome o; when
\* handleLogout awaits it, handleLogout resumes in turn.
SignOutSettle(o) ==
    /\ so.pc = "awaitSignOut"
    /\ session' = NULL
    /\ user' = NULL
    /\ profile' = NULL
    /\ LET r == SignOutResult(o)
           h == so.caller = "handleLogout"
       IN  so' = [so EXCEPT !.pc = "done", !.sdk = o, !.result = r, !.nav = Append(@, "/"),
                            !.handler = IF h THEN HandleLogoutResult(r) ELSE "none",
                            !.toasts = IF h THEN HandleLogoutToasts(r) ELSE <<>>]
    /\ UNCHANGED <<loading, initState, da, up, rs, au, loginView, profileView>>

\* ------------------------------------------------------- deleteAccount
ErrUnauth == "User not authenticated"

ToastDeleteFailed == ToastError("Failed to delete account. Please try again.")

ToastDeleted == ToastSuccess("Your account has been successfully deleted")

\* Mutant: the catch block of deleteAccount shows the toast but does not re-throw.
DeleteAccountCatchSwallowed(e) ==
    [da EXCEPT !.pc = "done", !.toasts = Append(@, ToastDeleteFailed),
               !.result = "resolved", !.err = e]

\* The catch block of deleteAccount, entered with error e.
DeleteAccountCatch(e) ==
    [da EXCEPT !.pc = "done", !.toasts = Append(@, ToastDeleteFailed),
               !.result = "rejected", !.err = e]

\* Mutant: deleteAccount without the authentication check of its first line.
DeleteAccountCallUnchecked ==
    /\ da.pc \in {"idle", "done"}
    /\ da' = [DaIdle EXCEPT !.pc = "awaitFetch",
                            !.reqs = <<[fn |-> "delete-user",
                                        userId |-> IF user = NULL THEN "undefined" ELSE user.id,
                                        token |-> IF session = NULL THEN "undefined"
                                                  ELSE session.access_token]>>]
    /\ UNCHANGED <<provider, initState, so, up, rs, au, loginView, profileView>>

\* deleteAccount is called and runs up to its await of fetch(.../delete-user).
DeleteAccountCall ==
    /\ da.pc \in {"idle", "done"}
    /\ IF user = NULL \/ session = NULL
       THEN da' = [DaIdle EXCEPT !.pc = "done", !.toasts = <<ToastDeleteFailed>>,
                                 !.result = "rejected", !.err = ErrUnauth]
       ELSE da' = [DaIdle EXCEPT !.pc = "awaitFetch",
                                 !.reqs = <<[fn |-> "delete-user", userId |-> user.id,
                                             token |-> session.access_token]>>]
    /\ UNCHANGED <<provider, initState, so, up, rs, au, loginView, profileView>>

\* deleteAccount resumes after fetch settled: it rejected, or a response arrived
\* with response.ok true or false; response.json() is then called and awaited.
DeleteFetchSettle(o) ==
    /\ da.pc = "awaitFetch"
    /\ IF o = "reject"
       THEN da' = [DeleteAccountCatch("fetch failed") EXCEPT !.status = "reject"]
       ELSE da' = [da EXCEPT !.pc = "awaitJson", !.status = o]
    /\ UNCHANGED <<provider, initState, so, up, rs, au, loginView, profileView>>

\* deleteAccount resumes after response.json() settled: it rejected (the body is
\* no JSON), or gave a body with or without an error field.
DeleteJsonSettle(o) ==
    /\ da.pc = "awaitJson"
    /\ IF o = "reject"
       THEN /\ da' = DeleteAccountCatch("invalid json")
            /\ UNCHANGED provider
       ELSE IF da.status # "ok"
       THEN /\ da' = DeleteAccountCatch(IF o = "body_error" THEN "result.error"
                                        ELSE "Failed to delete account")
            /\ UNCHANGED provider
       ELSE /\ session' = NULL
            /\ user' = NULL
            /\ profile' = NULL
            /\ da' = [da EXCEPT !.pc = "awaitSignOut", !.signOuts = @ + 1]
            /\ UNCHANGED loading
    /\ UNCHANGED <<initState, so, up, rs, au, loginView, profileView>>

\* deleteAccount resumes after its supabase.auth.signOut() settled; a rejection is
\* caught by the inner try and a returned error is not looked at.
DeleteSignOutSettle(o) ==
    /\ da.pc = "awaitSignOut"
    /\ da' = [da EXCEPT !.pc = "done", !.sdk = o, !.nav = Append(@, "/"),
                        !.toasts = Append(@, ToastDeleted), !.result = "resolved"]
    /\ UNCHANGED <<provider, initState, so, up, rs, au, loginView, profileView>>

\* ------------------------------------------------------- updateProfile
\* { ...prev, ...updates }: the fields of updates override those of prev.
Spread(prev, updates) ==
    [f \in DOMAIN prev \cup DOMAIN updates |->
        IF f \in DOMAIN updates THEN updates[f] ELSE prev[f]]

\* setProfile(prev => prev ? { ...prev, ...updates } : null)
MergedProfile(prev, updates) == IF prev # NULL THEN Spread(prev, updates) ELSE NULL

\* updateProfile(updates) is called and runs up to its await of the row update.
UpdateProfileCall(updates) ==
    /\ up.pc \in {"idle", "done"}
    /\ IF user = NULL
       THEN up' = [UpIdle EXCEPT !.pc = "done", !.updates = updates,
                                 !.result = "rejected", !.err = ErrUnauth]
       ELSE up' = [UpIdle EXCEPT !.pc = "awaitUpdate", !.updates = updates,
                                 !.reqs = <<[table |-> "profiles", id |-> user.id,
                                             updates |-> updates]>>]
    /\ UNCHANGED <<provider, initState, so, da, rs, au, loginView, profileView>>

\* Mutant: updateProfile merges the updates into the local profile whatever the
\* backend answered.
UpdateProfileSettleOptimistic(o) ==
    /\ up.pc = "awaitUpdate"
    /\ profile' = MergedProfile(profile, up.updates)
    /\ IF o = "ok"
       THEN up' = [up EXCEPT !.pc = "done", !.upd = o, !.result = "resolved"]
       ELSE up' = [up EXCEPT !.pc = "done", !.upd = o, !.result = "rejected", !.err = o]
    /\ UNCHANGED <<session, user, loading, initState, so, da, rs, au, loginView, profileView>>

\* updateProfile resumes after the row update settled with outcome o.
UpdateProfileSettle(o) ==
    /\ up.pc = "awaitUpdate"
    /\ IF o = "ok"
       THEN /\ profile' = MergedProfile(profile, up.updates)
            /\ up' = [up EXCEPT !.pc = "done", !.upd = o, !.result = "resolved"]
       ELSE /\ UNCHANGED profile
            /\ up' = [up EXCEPT !.pc = "done", !.upd = o, !.result = "rejected", !.err = o]
    /\ UNCHANGED <<session, user, loading, initState, so, da, rs, au, loginView, profileView>>

\* ------------------------------------------------------- resetUserData
\* Mutant: the reset leaves preference_chosen out.
ResetUpdatesPartial ==
    [onboarding_completed |-> FALSE, has_personality_insights |-> FALSE,
     personality_tiles |-> NULL]

\* const updates: ProfileUpdate = {...}
ResetUpdates ==
    [onboarding_completed |-> FALSE, has_personality_insights |-> FALSE,
     preference_chosen |-> FALSE, personality_tiles |-> NULL]

\* `${userFolder}/personality_report.txt` with userFolder = `user_data/${user.id}`
ReportPath(uid) == <<"user_data", uid, "personality_report.txt">>

\* resetUserData is called and runs up to its await of the row update.
ResetUserDataCall ==
    /\ rs.pc \in {"idle", "done"}
    /\ IF user = NULL
       THEN rs' = [RsIdle EXCEPT !.pc = "done", !.result = "rejected", !.err = ErrUnauth]
       ELSE rs' = [RsIdle EXCEPT !.pc = "awaitUpdate",
                                 !.reqs = <<[table |-> "profiles", id |-> user.id,
                                             updates |-> ResetUpdates]>>]
    /\ UNCHANGED <<provider, initState, so, da, up, au, loginView, profileView>>

\* Mutant: resetUserData does not look at the error the row update returned.
ResetUpdateSettleIgnoresError(o) ==
    /\ rs.pc = "awaitUpdate"
    /\ IF o # "throw"
       THEN rs' = [rs EXCEPT !.pc = "awaitRemove", !.upd = o,
                             !.removes = Append(@, ReportPath(rs.reqs[1].id))]
       ELSE rs' = [rs EXCEPT !.pc = "done", !.upd = o, !.result = "rejected", !.err = o]
    /\ UNCHANGED <<provider, initState, so, da, up, au, loginView, profileView>>

\* resetUserData resumes after the row update settled with outcome o; on success
\* it issues the storage removal and awaits it.
ResetUpdateSettle(o) ==
    /\ rs.pc = "awaitUpdate"
    /\ IF o = "ok"
       THEN rs' = [rs EXCEPT !.pc = "awaitRemove", !.upd = o,
                             !.removes = Append(@, ReportPath(rs.reqs[1].id))]
       ELSE rs' = [rs EXCEPT !.pc = "done", !.upd = o, !.result = "rejected", !.err = o]
    /\ UNCHANGED <<provider, initState, so, da, up, au, loginView, profileView>>

\* resetUserData resumes after the storage removal settled; a rejection is caught
\* by the inner try and a returned error is not looked at.
ResetRemoveSettle(o) ==
    /\ rs.pc = "awaitRemove"
    /\ profile' = MergedProfile(profile, ResetUpdates)
    /\ rs' = [rs EXCEPT !.pc = "done", !.rem = o, !.nav = Append(@, "/"), !.result = "resolved"]
    /\ UNCHANGED <<session, user, loading, initState, so, da, up, au, loginView, profileView>>

\* ------------------------------------- sign-in, sign-up, provider token
\* The context's email operations.
EmailOps == {"signInWithEmail", "signUpWithEmail"}

\* The provider_token values a session of the SDK can carry.
ProviderTokens == {"g1"}

\* signInWithEmail / signUpWithEmail run up to their await of
\* signInWithPassword / signUp.
EmailAuthCall(op) ==
    /\ au.pc \in {"idle", "done"}
    /\ au' = [AuIdle EXCEPT !.pc = "await", !.op = op]
    /\ UNCHANGED <<provider, initState, so, da, up, rs, loginView, profileView>>

\* How the email operation settles for outcome o of its SDK call: an error is
\* thrown, and the catch block rethrows.
EmailAuthResult(o) == IF o = "ok" THEN "resolved" ELSE "rejected"

\* The SDK call of the email operation settled with outcome o.
EmailAuthSettle(o) ==
    /\ au.pc = "await"
    /\ au.op \in EmailOps
    /\ au' = [au EXCEPT !.pc = "done", !.sdk = o, !.result = EmailAuthResult(o)]
    /\ UNCHANGED <<provider, initState, so, da, up, rs, loginView, profileView>>

\* getGoogleAuthToken: returns null at once without a session, else runs up to
\* its await of getSession.
GetGoogleAuthTokenCall ==
    /\ au.pc \in {"idle", "done"}
    /\ au' = IF session = NULL
             THEN [AuIdle EXCEPT !.pc = "done", !.op = "getGoogleAuthToken", !.result = "null"]
             ELSE [AuIdle EXCEPT !.pc = "await", !.op = "getGoogleAuthToken"]
    /\ UNCHANGED <<provider, initState, so, da, up, rs, loginView, profileView>>

\* What getGoogleAuthToken returns for outcome o of getSession, whose session
\* carries provider token t ("null" when there is no session or no token): the
\* catch block turns an error into null.
GoogleAuthTokenResult(o, t) == IF o = "ok" THEN t ELSE "null"

\* getSession of getGoogleAuthToken settled.
GetGoogleAuthTokenSettle(o, t) ==
    /\ au.pc = "await"
    /\ au.op = "getGoogleAuthToken"
    /\ au' = [au EXCEPT !.pc = "done", !.sdk = o, !.result = GoogleAuthTokenResult(o, t)]
    /\ UNCHANGED <<provider, initState, so, da, up, rs, loginView, profileView>>

\* ---------------------------------------------------------- login view
\* signInWithGoogle as it settles for outcome o of supabase.auth.signInWithOAuth().
SignInWithGoogleResult(o) == IF o = "ok" THEN "resolved" ELSE "rejected"

\* The toasts handleGoogleSignIn shows once the signInWithGoogle it awaited settled.
HandleGoogleSignInToasts(r) ==
    IF r = "rejected" THEN <<ToastError("Failed to sign in with Google. Please try again.")>>
    ELSE <<>>

\* How handleGoogleSignIn itself settles: its catch block takes every rejection.
HandleGoogleSignInResult(r) == "resolved"

\* Mutant: the button is not disabled while loading.
GoogleButtonAlwaysEnabled == TRUE

\* <Button onClick={handleGoogleSignIn} disabled={loading}>
GoogleButtonEnabled == ~authLoading

\* A click on the button: handleGoogleSignIn runs setLoading(true) and calls
\* signInWithGoogle, which runs up to its await of signInWithOAuth.
HandleGoogleSignIn ==
    /\ GoogleButtonEnabled
    /\ oauthInFlight < MaxClicks
    /\ authLoading' = TRUE
    /\ oauthInFlight' = oauthInFlight + 1
    /\ gs' = [GsIdle EXCEPT !.pc = "awaitOAuth", !.oauthCalls = 1]
    /\ UNCHANGED <<provider, initState, ops, profileView>>

\* The loading flag after handleGoogleSignIn's finally block.
LoadingAfterSignIn == FALSE

\* signInWithOAuth settled with outcome o: signInWithGoogle resumes and settles,
\* then handleGoogleSignIn resumes (catch, finally).
OAuthSettle(o) ==
    /\ oauthInFlight > 0
    /\ oauthInFlight' = oauthInFlight - 1
    /\ authLoading' = LoadingAfterSignIn
    /\ LET r == SignInWithGoogleResult(o)
       IN  gs' = [gs EXCEPT !.pc = "done", !.sdk = o, !.result = r,
                            !.handler = HandleGoogleSignInResult(r),
                            !.toasts = HandleGoogleSignInToasts(r)]
    /\ UNCHANGED <<provider, initState, ops, profileView>>

\* -------------------------------------------------------- profile view
\* if (profile?.personality_tiles) setPersonalityTiles(profile.personality_tiles)
TilesFromProfile ==
    IF profile # NULL /\ profile.personality_tiles # NULL
    THEN profile.personality_tiles ELSE personalityTiles

\* useEffect(() => {...}, [user, profile, navigate]): runs after a render in which
\* user or profile changed (the view stays mounted).  With no user it navigates to
\* /auth; otherwise fetchPersonalityData runs up to its await of the download.
ProfileEffect ==
    /\ pvDeps # <<user, profile>>
    /\ pvDeps' = <<user, profile>>
    /\ IF user = NULL
       THEN /\ pv' = [pv EXCEPT !.nav = <<"/auth">>]
            /\ UNCHANGED <<viewLoading, personalityTiles, pvDownloading>>
       ELSE /\ pvDownloading + pvReading < MaxViewFetches
            /\ viewLoading' = TRUE
            /\ personalityTiles' = TilesFromProfile
            /\ pvDownloading' = pvDownloading + 1
            /\ pv' = [pv EXCEPT !.nav = <<>>]
    /\ UNCHANGED <<provider, initState, ops, loginView, personalityReport, pvReading>>

\* The toasts fetchPersonalityData shows when the download failed: none ("Not
\* showing error to user as it's not critical").
DownloadErrorToasts(o) == <<>>

\* Mutant: fetchPersonalityData has no finally block.
LoadingAfterFetchKept == viewLoading

\* The loading flag after fetchPersonalityData's finally block.
LoadingAfterFetch == FALSE

\* fetchPersonalityData resumes after the download settled with outcome o: with
\* data it calls data.text() and awaits it, otherwise it ends.
DownloadSettle(o) ==
    /\ pvDownloading > 0
    /\ pvDownloading' = pvDownloading - 1
    /\ IF o = "ok"
       THEN /\ pvReading' = pvReading + 1
            /\ UNCHANGED <<viewLoading, pv>>
       ELSE /\ viewLoading' = LoadingAfterFetch
            /\ pv' = [pv EXCEPT !.last = "download failed", !.toasts = DownloadErrorToasts(o)]
            /\ UNCHANGED pvReading
    /\ UNCHANGED <<provider, initState, ops, loginView, personalityReport, personalityTiles, pvDeps>>

\* fetchPersonalityData resumes after data.text() settled: with the text, or with
\* a rejection that its catch block takes.
TextSettle(o, text) ==
    /\ pvReading > 0
    /\ pvReading' = pvReading - 1
    /\ viewLoading' = LoadingAfterFetch
    /\ personalityReport' = IF o = "ok" THEN text ELSE personalityReport
    /\ pv' = [pv EXCEPT !.last = "read", !.toasts = <<>>]
    /\ UNCHANGED <<provider, initState, ops, loginView, personalityTiles, pvDeps, pvDownloading>>

CoreNext ==
    \/ Mount
    \/ \E s \in Sessions \cup {NULL} : AuthStateChange(s)
    \/ \E u \in Users : DeferredFetch(u)
    \/ \E u \in Users : \E d \in BackendRows(u) \cup {NULL} : FetchProfileSettle(u, d)
    \/ \E o \in SdkOutcomes : \E s \in Sessions \cup {NULL} : GetSessionSettle(o, s)
    \/ \E d \in BackendRows(initUser) \cup {NULL} : InitFetchSettle(d)

Next ==
    \/ CoreNext
    \/ \E c \in {"handleLogout", "other"} : SignOutCall(c)
    \/ \E o \in SdkOutcomes : SignOutSettle(o)
    \/ DeleteAccountCall
    \/ \E o \in {"ok", "fail", "reject"} : DeleteFetchSettle(o)
    \/ \E o \in {"body", "body_error", "reject"} : DeleteJsonSettle(o)
    \/ \E o \in SdkOutcomes : DeleteSignOutSettle(o)

Spec == Init /\ [][Next]_vars

\* The provider with updateProfile.
NextUpdate ==
    \/ CoreNext
    \/ \E u \in UpdateInputs : UpdateProfileCall(u)
    \/ \E o \in SdkOutcomes : UpdateProfileSettle(o)

SpecUpdate == Init /\ [][NextUpdate]_vars

\* The provider with resetUserData.
NextReset ==
    \/ CoreNext
    \/ ResetUserDataCall
    \/ \E o \in SdkOutcomes : ResetUpdateSettle(o)
    \/ \E o \in SdkOutcomes : ResetRemoveSettle(o)

SpecReset == Init /\ [][NextReset]_vars

\* The provider with the handlers of the login view and the logout handler.
NextHandlers ==
    \/ CoreNext
    \/ \E c \in {"handleLogout", "other"} : SignOutCall(c)
    \/ \E o \in SdkOutcomes : SignOutSettle(o)
    \/ HandleGoogleSignIn
    \/ \E o \in SdkOutcomes : OAuthSettle(o)

SpecHandlers == Init /\ [][NextHandlers]_vars

\* The provider alone.  The mount effect runs after the first render, and the
\* SDK calls initializeAuth awaits settle.
SpecInit ==
    /\ Init
    /\ [][CoreNext]_vars
    /\ WF_vars(Mount)
    /\ WF_vars(\E o \in SdkOutcomes : \E s \in Sessions \cup {NULL} : GetSessionSettle(o, s))
    /\ WF_vars(\E d \in BackendRows(initUser) \cup {NULL} : InitFetchSettle(d))

\* The provider from mount to unmount.  The SDK may emit an auth event at any
\* time; the state updates of continuations that resume after the unmount are
\* dropped by React, so they are not followed.
NextLifecycle ==
    \/ Mount
    \/ \E s \in Sessions \cup {NULL} : AuthStateChange(s)
    \/ Mounted /\ \E u \in Users : DeferredFetch(u)
    \/ Mounted /\ \E u \in Users : \E d \in BackendRows(u) \cup {NULL} : FetchProfileSettle(u, d)
    \/ \E o \in SdkOutcomes : \E s \in Sessions \cup {NULL} : GetSessionSettle(o, s)
    \/ \E d \in BackendRows(initUser) \cup {NULL} : InitFetchSettle(d)
    \/ Unmount

SpecLifecycle == Init /\ [][NextLifecycle]_vars

\* No operation of the other kinds has been called.  The operations read the
\* provider's state and never one another's, so a behaviour follows the
\* provider with the operations of one kind.
OnlySignOut == da = DaIdle /\ up = UpIdle /\ rs = RsIdle /\ gs = GsIdle /\ au = AuIdle

OnlyDeleteAccount == so = SoIdle /\ up = UpIdle /\ rs = RsIdle /\ gs = GsIdle /\ au = AuIdle

OnlyUpdateProfile == so = SoIdle /\ da = DaIdle /\ rs = RsIdle /\ gs = GsIdle /\ au = AuIdle

OnlyResetUserData == so = SoIdle /\ da = DaIdle /\ up = UpIdle /\ gs = GsIdle /\ au = AuIdle

OnlyGoogleSignIn == so = SoIdle /\ da = DaIdle /\ up = UpIdle /\ rs = RsIdle /\ au = AuIdle

OnlyAuthCalls == so = SoIdle /\ da = DaIdle /\ up = UpIdle /\ rs = RsIdle /\ gs = GsIdle

\* The provider with every operation of the context.
NextSession ==
    \/ CoreNext
    \/ OnlySignOut /\ \E c \in {"handleLogout", "other"} : SignOutCall(c)
    \/ OnlySignOut /\ \E o \in SdkOutcomes : SignOutSettle(o)
    \/ OnlyDeleteAccount /\ DeleteAccountCall
    \/ OnlyDeleteAccount /\ \E o \in {"ok", "fail", "reject"} : DeleteFetchSettle(o)
    \/ OnlyDeleteAccount /\ \E o \in {"body", "body_error", "reject"} : DeleteJsonSettle(o)
    \/ OnlyDeleteAccount /\ \E o \in SdkOutcomes : DeleteSignOutSettle(o)
    \/ OnlyUpdateProfile /\ \E u \in UpdateInputs : UpdateProfileCall(u)
    \/ OnlyUpdateProfile /\ \E o \in SdkOutcomes : UpdateProfileSettle(o)
    \/ OnlyResetUserData /\ ResetUserDataCall
    \/ OnlyResetUserData /\ \E o \in SdkOutcomes : ResetUpdateSettle(o)
    \/ OnlyResetUserData /\ \E o \in SdkOutcomes : ResetRemoveSettle(o)
    \/ OnlyGoogleSignIn /\ HandleGoogleSignIn
    \/ OnlyGoogleSignIn /\ \E o \in SdkOutcomes : OAuthSettle(o)
    \/ OnlyAuthCalls /\ \E op \in EmailOps : EmailAuthCall(op)
    \/ OnlyAuthCalls /\ \E o \in SdkOutcomes : EmailAuthSettle(o)
    \/ OnlyAuthCalls /\ GetGoogleAuthTokenCall
    \/ OnlyAuthCalls /\ \E o \in SdkOutcomes : \E tk \in ProviderTokens \cup {"null"} : GetGoogleAuthTokenSettle(o, tk)

SpecSession == Init /\ [][NextSession]_vars

\* What the view renders: the spinner while loading, else the tiles when there are any.
TilesDisplayed == ~viewLoading /\ personalityTiles # NULL

\* The effect of the last commit has not run yet.
EffectPending == pvDeps # <<user, profile>>

\* The provider with the profile view's personality-data effect.  React runs the
\* effect of a commit before it renders the next state update, so the provider
\* does not move while the effect is pending.
NextProfileView ==
    \/ ~EffectPending /\ CoreNext
    \/ ProfileEffect
    \/ \E o \in SdkOutcomes : DownloadSettle(o)
    \/ \E o \in {"ok", "throw"} : \E x \in ReportTexts : TextSettle(o, x)

SpecProfileView == Init /\ [][NextProfileView]_vars

\* ====================================================================
\* Properties
\* ====================================================================

\* A step in which the tracked signOut invocation finishes.
SignOutFinishes == so.pc = "awaitSignOut" /\ so'.pc = "done"

\* C1: when signOut finishes, whether the SDK sign-out succeeded, returned an error
\* or threw, session, user and profile are all null and exactly the navigation to
\* '/' has been issued; it rejects when the SDK sign-out failed and resolves when it
\* succeeded.
C1_SignOutClearsAndNavigates ==
    [][SignOutFinishes =>
         /\ session' = NULL /\ user' = NULL /\ profile' = NULL
         /\ so'.nav = <<"/">>
         /\ so'.sdk \in SdkOutcomes
         /\ (so'.sdk = "ok") => so'.result = "resolved"
         /\ (so'.sdk # "ok") => so'.result = "rejected"]_vars

\* A signOut whose SDK call threw has finished: state cleared, navigated, rejected.
C1_Witness ==
    /\ so.pc = "done" /\ so.sdk = "throw" /\ so.result = "rejected"
    /\ so.nav = <<"/">> /\ session = NULL /\ user = NULL /\ profile = NULL
    /\ initPc = "done"

\* A step in which deleteAccount is invoked.
DeleteAccountInvoked == da.pc \in {"idle", "done"} /\ da' # da

\* C2: an invocation of deleteAccount issues at most one delete-user request; invoked
\* with user or session null it issues none, calls no SDK sign-out, does not
\* navigate and rejects with 'User not authenticated'.
C2_DeleteAccountRequests ==
    /\ [](Len(da.reqs) <= 1)
    /\ [][DeleteAccountInvoked =>
            IF user = NULL \/ session = NULL
            THEN /\ da'.reqs = <<>> /\ da'.signOuts = 0 /\ da'.nav = <<>>
                 /\ da'.pc = "done" /\ da'.result = "rejected"
                 /\ da'.err = "User not authenticated"
            ELSE /\ Len(da'.reqs) = 1
                 /\ da'.reqs[1].userId = user.id
                 /\ da'.reqs[1].token = session.access_token]_vars
    /\ [][~DeleteAccountInvoked => da'.reqs = da.reqs]_vars

\* deleteAccount was invoked without a user and has rejected without any request.
C2_Witness ==
    /\ da.pc = "done" /\ da.err = "User not authenticated" /\ da.result = "rejected"
    /\ da.reqs = <<>> /\ user = NULL /\ initPc = "done"

\* C3 (as stated): once the delete-user request responded with a success status,
\* deleteAccount ends resolved, with one SDK sign-out called after the state was
\* cleared, the navigation to '/' issued, and the success toast as its only toast.
C3_SuccessStatusCompletes ==
    (da.pc = "done" /\ da.status = "ok") =>
        /\ da.result = "resolved"
        /\ da.signOuts = 1
        /\ da.nav = <<"/">>
        /\ da.toasts = <<ToastSuccess("Your account has been successfully deleted")>>

\* C4: when the delete-user request fails (fetch rejects, or the response has a
\* non-success status), deleteAccount leaves session, user and profile unchanged,
\* calls no SDK sign-out, does not navigate, shows the error toast exactly once and
\* no success toast, and rejects.
C4_DeleteFailureLeavesState ==
    /\ []((da.pc = "done" /\ da.status \in {"reject", "fail"}) =>
            /\ da.signOuts = 0
            /\ da.nav = <<>>
            /\ da.toasts = <<ToastError("Failed to delete account. Please try again.")>>
            /\ da.result = "rejected")
    /\ []((da.status \in {"reject", "fail"}) => (da.signOuts = 0 /\ da.nav = <<>>))
    /\ [][(da' # da /\ da'.status \in {"reject", "fail"}) =>
            (session' = session /\ user' = user /\ profile' = profile)]_vars

\* deleteAccount of a signed-in user ended after a non-success response: the user
\* is still signed in and the call rejected with one error toast.
C4_Witness ==
    /\ da.pc = "done" /\ da.status = "fail" /\ da.result = "rejected"
    /\ Len(da.toasts) = 1 /\ Len(da.reqs) = 1
    /\ user # NULL /\ session # NULL /\ profile # NULL
    /\ user.id = da.reqs[1].userId

\* A step in which updateProfile is invoked.
UpdateProfileInvoked == up.pc \in {"idle", "done"} /\ up' # up

\* The profile after the step is prev overridden field by field by updates.
OverriddenBy(prev, updates) ==
    /\ profile' # NULL
    /\ DOMAIN profile' = DOMAIN prev \cup DOMAIN updates
    /\ \A f \in DOMAIN profile' :
         profile'[f] = IF f \in DOMAIN updates THEN updates[f] ELSE prev[f]

\* C5: updateProfile changes the local profile only after the backend update
\* succeeded.  With user null it issues no request and rejects with 'User not
\* authenticated'; a backend error is re-thrown; in both cases the profile is
\* unchanged.  On success the profile is the previous one overridden field by
\* field by the updates, or null if it was null.  No step of updateProfile changes
\* session, user or loading.
C5_UpdateProfile ==
    /\ [][UpdateProfileInvoked =>
            IF user = NULL
            THEN /\ up'.reqs = <<>> /\ up'.pc = "done" /\ up'.result = "rejected"
                 /\ up'.err = "User not authenticated"
            ELSE /\ Len(up'.reqs) = 1 /\ up'.reqs[1].id = user.id
                 /\ up'.pc = "awaitUpdate"]_vars
    /\ [][(up' # up) =>
            /\ session' = session /\ user' = user /\ loading' = loading
            /\ (up'.result # "resolved") => profile' = profile
            /\ (up'.result = "resolved") =>
                 /\ up.pc = "awaitUpdate" /\ up'.upd = "ok"
                 /\ IF profile = NULL THEN profile' = NULL
                    ELSE OverriddenBy(profile, up.updates)]_vars
    /\ []((up.pc = "done" /\ up.upd \in {"error", "throw"}) => up.result = "rejected")
    /\ []((up.pc = "done" /\ up.upd = "ok") => up.result = "resolved")

\* An updateProfile({full_name}) has succeeded and the local profile carries the
\* new name, which no backend row of the model has.
C5_Witness ==
    /\ up.pc = "done" /\ up.result = "resolved" /\ up.updates = [full_name |-> "n2"]
    /\ profile # NULL /\ profile.full_name = "n2"

\* A step in which resetUserData is invoked.
ResetUserDataInvoked == rs.pc \in {"idle", "done"} /\ rs' # rs

\* C6: with user null, or when the profiles-row update returns an error,
\* resetUserData issues no storage removal, leaves the local profile unchanged,
\* does not navigate and rejects; with user null it issues no backend request.
C6_ResetFailure ==
    /\ [][(ResetUserDataInvoked /\ user = NULL) =>
            /\ rs'.reqs = <<>> /\ rs'.removes = <<>> /\ rs'.nav = <<>>
            /\ rs'.pc = "done" /\ rs'.result = "rejected"
            /\ rs'.err = "User not authenticated"]_vars
    /\ []((rs.upd \in {"error", "throw"}) =>
            /\ rs.removes = <<>> /\ rs.nav = <<>>
            /\ rs.pc = "done" /\ rs.result = "rejected")
    /\ [][(rs' # rs /\ rs'.result = "rejected") => profile' = profile]_vars

\* resetUserData of a signed-in user rejected after the row update returned an
\* error: the local profile still has its flags set.
C6_Witness ==
    /\ rs.pc = "done" /\ rs.upd = "error" /\ rs.result = "rejected"
    /\ user # NULL /\ profile # NULL /\ profile.onboarding_completed
    /\ profile.personality_tiles # NULL

\* C7: when the profiles-row update of resetUserData succeeds, the removal of
\* user_data/<user id>/personality_report.txt is issued exactly once and only
\* after that update; however the removal settles, resetUserData resolves, the
\* navigation to '/' is issued, and a non-null local profile gets
\* onboarding_completed, has_personality_insights and preference_chosen false and
\* personality_tiles null, with every other field, session and user unchanged.
C7_ResetSuccess ==
    /\ []((rs.upd = "ok") =>
            rs.removes = << <<"user_data", rs.reqs[1].id, "personality_report.txt">> >>)
    /\ []((rs.upd # "ok") => rs.removes = <<>>)
    /\ [][(rs.pc = "awaitRemove" /\ rs' # rs) =>
            /\ rs'.pc = "done" /\ rs'.result = "resolved" /\ rs'.nav = <<"/">>
            /\ rs'.rem \in SdkOutcomes
            /\ session' = session /\ user' = user
            /\ IF profile = NULL THEN profile' = NULL
               ELSE /\ profile' # NULL
                    /\ DOMAIN profile' = DOMAIN profile
                    /\ profile'.onboarding_completed = FALSE
                    /\ profile'.has_personality_insights = FALSE
                    /\ profile'.preference_chosen = FALSE
                    /\ profile'.personality_tiles = NULL
                    /\ \A f \in DOMAIN profile \ {"onboarding_completed",
                            "has_personality_insights", "preference_chosen",
                            "personality_tiles"} : profile'[f] = profile[f]]_vars

\* resetUserData resolved although the storage removal threw; the signed-in
\* user's profile is reset.
C7_Witness ==
    /\ rs.pc = "done" /\ rs.rem = "throw" /\ rs.result = "resolved" /\ rs.nav = <<"/">>
    /\ user # NULL /\ profile # NULL /\ profile.id = rs.reqs[1].id
    /\ profile.personality_tiles = NULL /\ ~profile.preference_chosen

\* The toasts in log ts of the given kind.
ToastsOfKind(ts, k) == {i \in 1..Len(ts) : ts[i].kind = k}

\* C8: a rejection of signInWithGoogle in handleGoogleSignIn, or of signOut in
\* handleLogout, is caught by the handler and answered with exactly one error
\* toast and no success toast; the handler itself never rejects; the 'Logged out
\* successfully' toast is shown only when signOut resolved.
C8_HandlersCatchRejections ==
    /\ (gs.pc = "done") =>
          /\ gs.handler = "resolved"
          /\ ToastsOfKind(gs.toasts, "success") = {}
          /\ (gs.result = "rejected") =>
                (Len(gs.toasts) = 1 /\ gs.toasts[1].kind = "error")
    /\ (so.pc = "done" /\ so.caller = "handleLogout") =>
          /\ so.handler = "resolved"
          /\ (so.result = "rejected") =>
                (Len(so.toasts) = 1 /\ so.toasts[1].kind = "error")
          /\ (ToastsOfKind(so.toasts, "success") # {}) => so.result = "resolved"

\* Both handlers have caught a rejection and shown their error toast.
C8_Witness ==
    /\ gs.pc = "done" /\ gs.result = "rejected" /\ Len(gs.toasts) = 1
    /\ so.pc = "done" /\ so.caller = "handleLogout" /\ so.result = "rejected"
    /\ Len(so.toasts) = 1

\* C9: the login view's loading flag is true exactly while a signInWithGoogle
\* call started by handleGoogleSignIn is in flight; a click is accepted only while
\* loading is false and issues exactly one SDK OAuth call, so at most one is in
\* flight; when the call settles, however it does, loading is false.
C9_LoginLoading ==
    /\ [](authLoading <=> oauthInFlight > 0)
    /\ [](oauthInFlight <= 1)
    /\ [][(gs' # gs /\ gs'.pc = "awaitOAuth") =>
            /\ ~authLoading
            /\ oauthInFlight' = oauthInFlight + 1
            /\ gs'.oauthCalls = 1]_vars
    /\ [][(oauthInFlight' < oauthInFlight) => ~authLoading']_vars

\* A Google sign-in whose SDK call threw has settled and the button is enabled again.
C9_Witness ==
    /\ gs.pc = "done" /\ gs.sdk = "throw" /\ gs.oauthCalls = 1
    /\ ~authLoading /\ oauthInFlight = 0

\* C10: in the profile view every personality-data fetch ends with the loading
\* flag false, whether the download succeeded, returned an error or threw; a
\* failed download shows no toast, leaves the report as it was and keeps the
\* tiles taken from the profile, which are then displayed.
C10_ProfileFetchEnds ==
    /\ [][(pvDownloading' + pvReading' < pvDownloading + pvReading) =>
            ~viewLoading']_vars
    /\ [][(pvDownloading' < pvDownloading /\ pvReading' = pvReading) =>
            /\ pv'.toasts = <<>>
            /\ personalityReport' = personalityReport
            /\ personalityTiles' = personalityTiles
            /\ (personalityTiles # NULL) => TilesDisplayed']_vars

\* A download has failed; no report was set, the view is not loading and shows
\* the tiles it took from the profile.
C10_Witness ==
    /\ pv.last = "download failed" /\ pv.toasts = <<>>
    /\ user # NULL /\ personalityReport = NULL
    /\ ~viewLoading /\ personalityTiles # NULL
    /\ pvDownloading = 0 /\ pvReading = 0

\* The provider state after an auth event carrying session s was applied.
EventApplied(s) ==
    IF s # NULL /\ s.user # NULL
    THEN session' = s /\ user' = s.user
    ELSE session' = NULL /\ user' = NULL /\ profile' = NULL

\* C11: the listener is registered by the mount effect no later than getSession is
\* requested and stays registered until the unmount, so an auth event emitted
\* between mount and unmount is applied (session and user from its session when
\* it carries a user, session, user and profile cleared when it does not); after
\* the unmount the listener is unsubscribed and no event changes the state.
C11_ListenerLifecycle ==
    /\ [](listening <=> Mounted)
    /\ [][\A s \in Sessions \cup {NULL} : AuthStateChange(s) => EventApplied(s)]_vars
    /\ [][(initPc = "gone") =>
            (session' = session /\ user' = user /\ profile' = profile)]_vars
    /\ [][(initPc = "gone") => (initPc' = "gone" /\ ~listening')]_vars

\* The provider has unmounted after an event with a user was applied to it.
C11_Witness ==
    /\ initPc = "gone" /\ ~listening
    /\ session # NULL /\ user = session.user
    /\ Total(deferred) + Total(fetching) > 0

\* C12: the provider's loading flag starts true and is false once initializeAuth
\* has finished, on every path; it is never set back to true; while getSession or
\* the initial profile fetch of an existing session is pending it is still true;
\* and if the SDK calls settle it eventually becomes false.
C12_LoadingInitialisation ==
    /\ [](initPc \in {"unmounted", "getSession", "fetchProfile"} => loading)
    /\ [](initPc = "done" => ~loading)
    /\ [][(initPc = "getSession" /\ initPc' # initPc) =>
            \/ initPc' = "fetchProfile" /\ session' # NULL /\ user' = session'.user /\ loading'
            \/ initPc' = "done" /\ ~loading']_vars
    /\ [][~loading => ~loading']_vars
    /\ <>(~loading)

\* Initialisation found a session and finished after its profile fetch failed.
C12_Witness ==
    /\ initPc = "done" /\ ~loading /\ initUser \in Users
    /\ session # NULL /\ session.user.id = initUser /\ profile = NULL
    /\ Total(deferred) + Total(fetching) = 0

\* C13 (as stated): in every reachable state of the provider, if user is null then
\* profile is null.
C13_NoProfileWithoutUser == (user = NULL) => (profile = NULL)

\* C14 (as stated): in every reachable state of the provider in which user and
\* profile are both non-null, the profile is the row of the current user.
C14_ProfileOfCurrentUser == (user # NULL /\ profile # NULL) => (profile.id = user.id)

\* session and user agree: both null, or user is the user of the session.
SessionUserConsistent ==
    /\ (session = NULL) <=> (user = NULL)
    /\ session # NULL => user = session.user

\* A step of one of the writers of session and user: an auth state event,
\* initializeAuth after getSession, signOut after the SDK call, deleteAccount
\* after the response body.
SessionWriterStep ==
    \/ \E s \in Sessions \cup {NULL} : AuthStateChange(s)
    \/ \E o \in SdkOutcomes : \E s \in Sessions \cup {NULL} : GetSessionSettle(o, s)
    \/ \E o \in SdkOutcomes : SignOutSettle(o)
    \/ \E o \in {"body", "body_error", "reject"} : DeleteJsonSettle(o)

\* A step of any other operation: sign-in, sign-up, updateProfile,
\* resetUserData, getGoogleAuthToken, fetchProfile.
OtherOperationStep ==
    \/ HandleGoogleSignIn
    \/ \E o \in SdkOutcomes : OAuthSettle(o)
    \/ \E op \in EmailOps : EmailAuthCall(op)
    \/ \E o \in SdkOutcomes : EmailAuthSettle(o)
    \/ \E u \in UpdateInputs : UpdateProfileCall(u)
    \/ \E o \in SdkOutcomes : UpdateProfileSettle(o)
    \/ ResetUserDataCall
    \/ \E o \in SdkOutcomes : ResetUpdateSettle(o)
    \/ \E o \in SdkOutcomes : ResetRemoveSettle(o)
    \/ GetGoogleAuthTokenCall
    \/ \E o \in SdkOutcomes : \E tk \in ProviderTokens \cup {"null"} : GetGoogleAuthTokenSettle(o, tk)
    \/ \E u \in Users : DeferredFetch(u)
    \/ \E u \in Users : \E d \in BackendRows(u) \cup {NULL} : FetchProfileSettle(u, d)
    \/ \E d \in BackendRows(initUser) \cup {NULL} : InitFetchSettle(d)

\* C15: in every reachable state session is null exactly when user is null, and
\* when they are non-null user is the user of the session; every step that
\* changes session or user is a step of an auth state event, of initialisation,
\* of signOut or of deleteAccount, and leaves the two consistent; no step of
\* sign-in, sign-up, updateProfile, resetUserData, getGoogleAuthToken or
\* fetchProfile changes either.
C15_SessionUserAgree ==
    /\ []SessionUserConsistent
    /\ [][(session' # session \/ user' # user) => (SessionWriterStep /\ SessionUserConsistent')]_vars
    /\ [][OtherOperationStep => (session' = session /\ user' = user)]_vars

\* A provider token was returned for a session set by a writer, with user the
\* user of that session.
C15_Witness ==
    /\ au.pc = "done" /\ au.op = "getGoogleAuthToken" /\ au.result \in ProviderTokens
    /\ session # NULL /\ user = session.user
    /\ initPc = "done"

====
